---- MODULE Spec2Model ----
(***************************************************************************)
(* Model of db_setup.py: the one-shot database bootstrap script.           *)
(*                                                                         *)
(* main() obtains a connection (get_db_connection), then walks the fixed   *)
(* list sql_files in order; each file is checked for existence, read,      *)
(* executed as one batch and committed (execute_sql_file).  Any exception  *)
(* is caught by main's `except Exception` and turned into return value 1.  *)
(*                                                                         *)
(* The program is sequential: pc is the position of the single control     *)
(* path.  The environment (DATABASE_URL, which files exist) is fixed when  *)
(* the process starts; the outcome of every call that leaves the process   *)
(* (psycopg2.connect, open/read, cursor.execute, conn.commit,              *)
(* conn.rollback) is chosen when the call is made.  conn.cursor(),         *)
(* cursor.close(), conn.close() and print are local operations on a live   *)
(* connection object and are modelled as returning normally.               *)
(***************************************************************************)
EXTENDS Naturals, Sequences, FiniteSets

VARIABLES
    environ,          \* DATABASE_URL in the process environment
    exists,           \* the names in sql_files that exist on the file system
    pc,               \* position of the control path
    idx,              \* number of iterations of the for loop started so far
    conn,             \* "None" | "open" | "closed"
    cursor,           \* "None" | "open" | "closed"
    txn,              \* file whose batch is in the connection's open transaction, or ""
    committed,        \* files whose batch is durably committed, in commit order
    exc,              \* the exception in flight / caught, "None" when there is none
    ret,              \* return value of main(): "None" until it returns, then 0 or 1
    connectAttempts,  \* history: calls of psycopg2.connect
    opened,           \* history: files passed to open()
    execLog,          \* history: cursor.execute calls, [file, ok]
    commitLog,        \* history: conn.commit calls, [file, ok]
    rollbackLog       \* history: conn.rollback calls, [file, ok]

vars == <<environ, exists, pc, idx, conn, cursor, txn, committed, exc, ret,
          connectAttempts, opened, execLog, commitLog, rollbackLog>>

hist == <<connectAttempts, opened, execLog, commitLog, rollbackLog>>

\* main(), lines 62-67: the declared, ordered list of SQL files.
sql_files == <<"schema.sql", "customer.sql", "supplier.sql", "driver.sql">>

Files == {sql_files[i] : i \in 1..Len(sql_files)}

\* os.getenv("DATABASE_URL"): unset (None), set to "", or set to a URI.
DatabaseUrls ==
    { [set |-> FALSE, value |-> ""],
      [set |-> TRUE,  value |-> ""],
      [set |-> TRUE,  value |-> "postgresql://db"] }

\* Python truthiness of os.getenv's result: None and "" are falsy (line 19).
Truthy(url) == url.set /\ url.value # ""

\* The file the current iteration of the for loop is about.
sql_filename == sql_files[idx]

Init ==
    /\ environ \in DatabaseUrls
    /\ exists \in SUBSET Files
    /\ pc = "get_db_connection"
    /\ idx = 0
    /\ conn = "None"
    /\ cursor = "None"
    /\ txn = ""
    /\ committed = <<>>
    /\ exc = "None"
    /\ ret = "None"
    /\ connectAttempts = 0
    /\ opened = <<>>
    /\ execLog = <<>>
    /\ commitLog = <<>>
    /\ rollbackLog = <<>>

------------------------------------------------------------------------------
(* get_db_connection *)

GetDbConnection_NoneOnly ==
    /\ pc = "get_db_connection"
    /\ IF environ.set
         THEN pc' = "connect" /\ exc' = exc
         ELSE pc' = "except" /\ exc' = "ValueError"
    /\ UNCHANGED <<environ, exists, idx, conn, cursor, txn, committed, ret, hist>>

\* Lines 17-20: read DATABASE_URL, raise ValueError when it is unset or empty.
GetDbConnection ==
    /\ pc = "get_db_connection"
    /\ IF Truthy(environ)
         THEN pc' = "connect" /\ exc' = exc
         ELSE pc' = "except" /\ exc' = "ValueError"
    /\ UNCHANGED <<environ, exists, idx, conn, cursor, txn, committed, ret, hist>>

\* Lines 23-25: psycopg2.connect(database_url); it returns a connection or raises.
Connect ==
    /\ pc = "connect"
    /\ connectAttempts' = connectAttempts + 1
    /\ \E ok \in BOOLEAN :
         IF ok
           THEN conn' = "open" /\ pc' = "for" /\ exc' = exc
           ELSE conn' = conn /\ pc' = "except" /\ exc' = "OperationalError"
    /\ UNCHANGED <<environ, exists, idx, cursor, txn, committed, ret,
                   opened, execLog, commitLog, rollbackLog>>

------------------------------------------------------------------------------
(* main: the for loop *)

For_SkipMissing ==
    /\ pc = "for"
    /\ IF idx < Len(sql_files)
         THEN /\ idx' = idx + 1
              /\ exc' = exc
              /\ IF sql_files[idx + 1] \in exists
                   THEN pc' = "open"
                   ELSE pc' = "for"
         ELSE /\ idx' = idx
              /\ pc' = "conn_close"
              /\ exc' = exc
    /\ UNCHANGED <<environ, exists, conn, cursor, txn, committed, ret, hist>>

For_SkipOne ==
    /\ pc = "for"
    /\ IF idx < Len(sql_files)
         THEN /\ idx' = IF idx = 1 THEN idx + 2 ELSE idx + 1
              /\ IF sql_files[idx'] \in exists
                   THEN pc' = "open" /\ exc' = exc
                   ELSE pc' = "except" /\ exc' = "FileNotFoundError"
         ELSE /\ idx' = idx
              /\ pc' = "conn_close"
              /\ exc' = exc
    /\ UNCHANGED <<environ, exists, conn, cursor, txn, committed, ret, hist>>

\* Lines 71-77: take the next file of sql_files; when it exists call
\* execute_sql_file, otherwise raise FileNotFoundError.  When the list is
\* exhausted fall through to conn.close() (line 80).
For ==
    /\ pc = "for"
    /\ IF idx < Len(sql_files)
         THEN /\ idx' = idx + 1
              /\ IF sql_files[idx + 1] \in exists
                   THEN pc' = "open" /\ exc' = exc
                   ELSE pc' = "except" /\ exc' = "FileNotFoundError"
         ELSE /\ idx' = idx
              /\ pc' = "conn_close"
              /\ exc' = exc
    /\ UNCHANGED <<environ, exists, conn, cursor, txn, committed, ret, hist>>

------------------------------------------------------------------------------
(* execute_sql_file *)

\* Lines 33-34: open the file and read its whole text; either may raise.
ReadFile ==
    /\ pc = "open"
    /\ opened' = Append(opened, sql_filename)
    /\ \E ok \in BOOLEAN :
         IF ok
           THEN pc' = "cursor" /\ exc' = exc
           ELSE pc' = "except" /\ exc' = "OSError"
    /\ UNCHANGED <<environ, exists, idx, conn, cursor, txn, committed, ret,
                   connectAttempts, execLog, commitLog, rollbackLog>>

\* Line 37: cursor = conn.cursor().
OpenCursor ==
    /\ pc = "cursor"
    /\ cursor' = "open"
    /\ pc' = "execute"
    /\ UNCHANGED <<environ, exists, idx, conn, txn, committed, exc, ret, hist>>

\* Line 39: cursor.execute(sql_content).  The batch runs inside the
\* connection's transaction; when it raises control goes to the except clause.
Execute ==
    /\ pc = "execute"
    /\ txn' = sql_filename
    /\ \E ok \in BOOLEAN :
         /\ execLog' = Append(execLog, [file |-> sql_filename, ok |-> ok])
         /\ IF ok
              THEN pc' = "commit" /\ exc' = exc
              ELSE pc' = "rollback" /\ exc' = "ExecuteError"
    /\ UNCHANGED <<environ, exists, idx, conn, cursor, committed, ret,
                   connectAttempts, opened, commitLog, rollbackLog>>

Commit_IgnoreFailure ==
    /\ pc = "commit"
    /\ \E ok \in BOOLEAN :
         /\ commitLog' = Append(commitLog, [file |-> sql_filename, ok |-> ok])
         /\ IF ok
              THEN /\ committed' = Append(committed, txn)
                   /\ txn' = ""
              ELSE /\ committed' = committed
                   /\ txn' = txn
         /\ pc' = "finally"
         /\ exc' = exc
    /\ UNCHANGED <<environ, exists, idx, conn, cursor, ret,
                   connectAttempts, opened, execLog, rollbackLog>>

\* Lines 40-41: conn.commit(), inside the same try block as the execute: when
\* it raises, control goes to the except clause as well.
Commit ==
    /\ pc = "commit"
    /\ \E ok \in BOOLEAN :
         /\ commitLog' = Append(commitLog, [file |-> sql_filename, ok |-> ok])
         /\ IF ok
              THEN /\ committed' = Append(committed, txn)
                   /\ txn' = ""
                   /\ pc' = "finally"
                   /\ exc' = exc
              ELSE /\ committed' = committed
                   /\ txn' = txn
                   /\ pc' = "rollback"
                   /\ exc' = "CommitError"
    /\ UNCHANGED <<environ, exists, idx, conn, cursor, ret,
                   connectAttempts, opened, execLog, rollbackLog>>

Rollback_Swallow ==
    /\ pc = "rollback"
    /\ txn' = ""
    /\ \E ok \in BOOLEAN :
         /\ rollbackLog' = Append(rollbackLog, [file |-> sql_filename, ok |-> ok])
         /\ exc' = "None"
    /\ pc' = "finally"
    /\ UNCHANGED <<environ, exists, idx, conn, cursor, committed, ret,
                   connectAttempts, opened, execLog, commitLog>>

Rollback_UndoPrevious ==
    /\ pc = "rollback"
    /\ txn' = ""
    /\ committed' = IF committed = <<>> THEN committed
                    ELSE SubSeq(committed, 1, Len(committed) - 1)
    /\ \E ok \in BOOLEAN :
         /\ rollbackLog' = Append(rollbackLog, [file |-> sql_filename, ok |-> ok])
         /\ exc' = IF ok THEN exc ELSE "RollbackError"
    /\ pc' = "finally"
    /\ UNCHANGED <<environ, exists, idx, conn, cursor, ret,
                   connectAttempts, opened, execLog, commitLog>>

\* Lines 42-45: conn.rollback() discards the open transaction, then the
\* exception is re-raised; when rollback itself raises, that exception
\* propagates instead.  Either way the finally clause runs next.
Rollback ==
    /\ pc = "rollback"
    /\ txn' = ""
    /\ \E ok \in BOOLEAN :
         /\ rollbackLog' = Append(rollbackLog, [file |-> sql_filename, ok |-> ok])
         /\ exc' = IF ok THEN exc ELSE "RollbackError"
    /\ pc' = "finally"
    /\ UNCHANGED <<environ, exists, idx, conn, cursor, committed, ret,
                   connectAttempts, opened, execLog, commitLog>>

Finally_Retry ==
    /\ pc = "finally"
    /\ cursor' = "closed"
    /\ pc' = IF exc = "None" THEN "for" ELSE "open"
    /\ UNCHANGED <<environ, exists, idx, conn, txn, committed, exc, ret, hist>>

\* Lines 46-47: cursor.close(); then execute_sql_file returns to the loop, or
\* the exception in flight propagates to main's except clause.
Finally ==
    /\ pc = "finally"
    /\ cursor' = "closed"
    /\ pc' = IF exc = "None" THEN "for" ELSE "except"
    /\ UNCHANGED <<environ, exists, idx, conn, txn, committed, exc, ret, hist>>

------------------------------------------------------------------------------
(* main: the end of the run *)

\* Lines 79-81: conn.close(), reached only when the loop ran to its end.
ConnClose ==
    /\ pc = "conn_close"
    /\ conn' = "closed"
    /\ pc' = "return"
    /\ UNCHANGED <<environ, exists, idx, cursor, txn, committed, exc, ret, hist>>

Except_ReturnZero ==
    /\ pc = "except"
    /\ ret' = 0
    /\ pc' = "done"
    /\ UNCHANGED <<environ, exists, idx, conn, cursor, txn, committed, exc, hist>>

\* Lines 83-85: except Exception: print the error, return 1.
Except ==
    /\ pc = "except"
    /\ ret' = 1
    /\ pc' = "done"
    /\ UNCHANGED <<environ, exists, idx, conn, cursor, txn, committed, exc, hist>>

\* Line 87: return 0.
Return ==
    /\ pc = "return"
    /\ ret' = 0
    /\ pc' = "done"
    /\ UNCHANGED <<environ, exists, idx, conn, cursor, txn, committed, exc, hist>>

Next ==
    \/ GetDbConnection
    \/ Connect
    \/ For
    \/ ReadFile
    \/ OpenCursor
    \/ Execute
    \/ Commit
    \/ Rollback
    \/ Finally
    \/ ConnClose
    \/ Except
    \/ Return

Spec == Init /\ [][Next]_vars

\* The script is a single synchronous control path: whenever a step is
\* possible it is eventually taken.
FairSpec == Spec /\ WF_vars(Next)

------------------------------------------------------------------------------
(* Vocabulary of the properties *)

N == Len(sql_files)

\* The first k files of the declared order.
Prefix(k) == SubSeq(sql_files, 1, k)

IsPrefix(s, t) == Len(s) <= Len(t) /\ SubSeq(t, 1, Len(s)) = s

LogFiles(log) == [k \in DOMAIN log |-> log[k].file]

Calls(log, f) == {k \in DOMAIN log : log[k].file = f}

Opened(f) == \E k \in DOMAIN opened : opened[k] = f
Executed(f) == Calls(execLog, f) # {}
ExecOk(f) == \E k \in Calls(execLog, f) : execLog[k].ok
ExecRaised(f) == \E k \in Calls(execLog, f) : ~execLog[k].ok
CommitIssued(f) == Calls(commitLog, f) # {}
CommitOk(f) == \E k \in Calls(commitLog, f) : commitLog[k].ok
CommitRaised(f) == \E k \in Calls(commitLog, f) : ~commitLog[k].ok
RollbackIssued(f) == Calls(rollbackLog, f) # {}
IsCommitted(f) == \E k \in DOMAIN committed : committed[k] = f

\* Nothing at all was done with file f.
Untouched(f) ==
    ~Opened(f) /\ ~Executed(f) /\ ~CommitIssued(f) /\ ~RollbackIssued(f)
    /\ ~IsCommitted(f) /\ txn # f

\* execute_sql_file is past its try/except for file f.
Settled(f) == ~(idx > 0 /\ f = sql_files[idx] /\ pc \in {"commit", "rollback"})

Done == pc = "done"

------------------------------------------------------------------------------
(* C1 *)

\* C1: for every position i of the declared list, once executing file i has
\* raised a database error, files 1..i-1 are exactly the committed ones, file i
\* is never committed, files i+1..n are never read or executed, and at the end
\* of the run file i's transaction has been rolled back.
C1_FailureAtFileI ==
    \A i \in 1..N :
        ExecRaised(sql_files[i]) =>
            /\ committed = Prefix(i - 1)
            /\ ~CommitIssued(sql_files[i])
            /\ \A j \in (i + 1)..N : ~Opened(sql_files[j]) /\ ~Executed(sql_files[j])
            /\ Done => /\ RollbackIssued(sql_files[i])
                       /\ txn = ""
                       /\ ret = 1

C1_Witness ==
    /\ Done
    /\ exists = Files
    /\ ExecRaised("customer.sql")
    /\ committed = <<"schema.sql">>
    /\ RollbackIssued("customer.sql")
    /\ ret = 1

------------------------------------------------------------------------------
(* C2 *)

\* C2: in every terminal state of main() reached after get_db_connection()
\* returned a connection, the connection has been closed.
C2_ClosedAtEnd == (Done /\ conn # "None") => conn = "closed"

------------------------------------------------------------------------------
(* C3 *)

\* C3 as stated: when the connection succeeds, all four files exist and every
\* batch executes without error, the run executes and commits each file
\* exactly once in the declared order, issues no rollback and returns 0.
C3_Original ==
    (/\ Done
     /\ conn # "None"
     /\ exists = Files
     /\ \A f \in Files : ExecOk(f) /\ ~ExecRaised(f))
    => /\ LogFiles(execLog) = sql_files
       /\ LogFiles(commitLog) = sql_files
       /\ committed = sql_files
       /\ rollbackLog = <<>>
       /\ ret = 0

\* C3 amended: when the connection succeeds, all four files exist and every
\* batch executes and commits without error, each file is executed and
\* committed exactly once in the declared order, no rollback is issued, the
\* connection is closed and main() returns 0.
C3_AllValid ==
    (/\ conn # "None"
     /\ exists = Files
     /\ \A f \in Files : ExecOk(f) /\ CommitOk(f))
    => /\ LogFiles(execLog) = sql_files
       /\ LogFiles(commitLog) = sql_files
       /\ opened = sql_files
       /\ committed = sql_files
       /\ rollbackLog = <<>>
       /\ exc = "None"
       /\ Done => ret = 0 /\ conn = "closed"

C3_Witness ==
    /\ Done
    /\ exists = Files
    /\ \A f \in Files : ExecOk(f) /\ CommitOk(f)
    /\ committed = sql_files
    /\ ret = 0

------------------------------------------------------------------------------
(* C4 *)

\* C4: when DATABASE_URL is unset or empty, psycopg2.connect is never called,
\* no file is read or executed, and main() ends with ValueError caught and
\* return value 1.
C4_MissingUrl ==
    ~Truthy(environ) =>
        /\ connectAttempts = 0
        /\ conn = "None"
        /\ opened = <<>>
        /\ execLog = <<>>
        /\ committed = <<>>
        /\ Done => ret = 1 /\ exc = "ValueError"

C4_Witness ==
    /\ Done
    /\ environ.set
    /\ environ.value = ""
    /\ exists = Files
    /\ ret = 1

------------------------------------------------------------------------------
(* C5 *)

\* C5: if the declared file at position i does not exist, file i and every
\* later file are never read, executed, committed or rolled back, the loop
\* never advances past position i, and main() returns 1; when the loop reaches
\* position i it fails right there with FileNotFoundError, every file 1..i-1
\* having been executed and committed by then (existence is checked at each
\* file's turn, not up front).
C5_MissingFile ==
    \A i \in 1..N :
        sql_files[i] \notin exists =>
            /\ \A j \in i..N : Untouched(sql_files[j])
            /\ idx <= i
            /\ Done => ret = 1
            /\ idx = i =>
                /\ pc \in {"except", "done"}
                /\ exc = "FileNotFoundError"
                /\ LogFiles(execLog) = Prefix(i - 1)
                /\ \A k \in DOMAIN execLog : execLog[k].ok
                /\ committed = Prefix(i - 1)

C5_Witness ==
    /\ Done
    /\ exists = Files \ {"supplier.sql"}
    /\ idx = 3
    /\ exc = "FileNotFoundError"
    /\ committed = <<"schema.sql", "customer.sql">>
    /\ ret = 1

------------------------------------------------------------------------------
(* C6 *)

\* C6: main() returns 0 exactly when the connection was opened and all four
\* files were executed and committed; in every other run it returns 1; it
\* returns nothing else.
C6_ExitCode ==
    /\ ~Done => ret = "None"
    /\ Done =>
        /\ ret \in {0, 1}
        /\ ret = 0 <=> /\ conn # "None"
                       /\ \A f \in Files : ExecOk(f) /\ IsCommitted(f)
        /\ ret = 1 <=> exc # "None"

C6_Witness ==
    /\ Done
    /\ ret = 1
    /\ conn = "open"
    /\ exc = "OSError"
    /\ committed = <<"schema.sql">>

------------------------------------------------------------------------------
(* C7 *)

\* C7: in every reachable state the committed files are a prefix of the
\* declared order, and a file has been executed only if every earlier file of
\* the list is committed.
C7_CommittedPrefix ==
    /\ committed = Prefix(Len(committed))
    /\ \A i \in 1..N :
          Executed(sql_files[i]) => IsPrefix(Prefix(i - 1), committed)
    /\ \A i \in 1..N :
          txn = sql_files[i] => committed = Prefix(i - 1)

C7_Witness ==
    /\ pc = "commit"
    /\ txn = "supplier.sql"
    /\ committed = <<"schema.sql", "customer.sql">>

------------------------------------------------------------------------------
(* C8 *)

\* C8: the connection is attempted at most once, each file is executed at
\* most once, and once an exception has been raised no further connect or
\* execute call is made.
C8_NoRetry ==
    /\ [](/\ connectAttempts <= 1
          /\ \A f \in Files : Cardinality(Calls(execLog, f)) <= 1
          /\ \A f \in Files : Cardinality(Calls(commitLog, f)) <= 1)
    /\ [][exc # "None" =>
            /\ connectAttempts' = connectAttempts
            /\ execLog' = execLog
            /\ opened' = opened]_vars

C8_Witness ==
    /\ Done
    /\ exc = "ExecuteError"
    /\ Len(execLog) = 3
    /\ connectAttempts = 1

------------------------------------------------------------------------------
(* C9 *)

\* C9 as stated: for every file whose batch was submitted, once
\* execute_sql_file is past its try/except exactly one of commit (iff the
\* execute succeeded) or rollback (iff it raised) has been issued, never both
\* and never neither.
C9_Original ==
    \A f \in Files :
        (Executed(f) /\ Settled(f)) =>
            /\ CommitIssued(f) <=> ExecOk(f)
            /\ RollbackIssued(f) <=> ExecRaised(f)
            /\ ~(CommitIssued(f) /\ RollbackIssued(f))
            /\ CommitIssued(f) \/ RollbackIssued(f)

\* C9 amended: for every file whose batch was submitted, before any later file
\* is read, commit has been issued iff the execute succeeded and rollback has
\* been issued iff the execute or the commit raised; at least one of the two
\* is issued, both only when the commit itself raised, and the file is
\* committed iff its commit succeeded.  No step ever removes a committed file:
\* a rollback never undoes an earlier commit.
C9_PerFileTransaction ==
    /\ [](\A f \in Files :
            (Executed(f) /\ Settled(f)) =>
                /\ CommitIssued(f) <=> ExecOk(f)
                /\ RollbackIssued(f) <=> (ExecRaised(f) \/ CommitRaised(f))
                /\ CommitIssued(f) \/ RollbackIssued(f)
                /\ (CommitIssued(f) /\ RollbackIssued(f)) => CommitRaised(f)
                /\ IsCommitted(f) <=> CommitOk(f)
                /\ Cardinality(Calls(commitLog, f)) <= 1
                /\ Cardinality(Calls(rollbackLog, f)) <= 1
                /\ txn # f)
    /\ [][IsPrefix(committed, committed')]_vars

C9_Witness ==
    /\ Done
    /\ committed = <<"schema.sql">>
    /\ CommitOk("schema.sql")
    /\ ExecOk("customer.sql")
    /\ CommitRaised("customer.sql")
    /\ RollbackIssued("customer.sql")

------------------------------------------------------------------------------
(* C10 *)

AllCommitted == committed = sql_files /\ ret = 0

AbortedAt(i) ==
    /\ committed = Prefix(i - 1)
    /\ idx = i
    /\ \A j \in (i + 1)..N : Untouched(sql_files[j])
    /\ ret = 1

\* C10: every run terminates; a run that obtained a connection ends either
\* with all four files committed and return value 0, or aborted at exactly one
\* file i with files 1..i-1 committed, file i not committed, the files after i
\* untouched and return value 1; the position in the list only ever moves one
\* file forward.
C10_LinearProgress ==
    /\ <>Done
    /\ []((Done /\ conn # "None") =>
            Cardinality({i \in 1..N : AbortedAt(i)})
              + (IF AllCommitted THEN 1 ELSE 0) = 1)
    /\ [][idx' = idx \/ idx' = idx + 1]_vars
    /\ [](\A k \in DOMAIN opened : opened[k] = sql_files[k])

C10_Witness ==
    /\ Done
    /\ conn # "None"
    /\ AbortedAt(3)
    /\ ExecRaised("supplier.sql")

====
